---- MODULE Spec2Model ----
(***************************************************************************)
(* Eudaimonia frontend: the keyed query cache, the mutations and the       *)
(* session-gated views, as a state machine.                                *)
(*                                                                         *)
(* The views are the React components of the repository.  Each useQuery    *)
(* call is an observer of a key of the one query cache; each useMutation   *)
(* call is a mutation instance.  A request travels in two steps: the       *)
(* backend serves it (reads or writes its own state) and later the client  *)
(* receives the response, so responses of independent requests may arrive  *)
(* in any order.  Window-focus and reconnect refetches and cache garbage   *)
(* collection are environment events that are not modelled.                *)
(***************************************************************************)
EXTENDS Naturals, FiniteSets, Sequences, TLC

(* ------------------------------ bounds -------------------------------- *)
\* Requests one behaviour may issue in total.
MaxRequests == 5
\* Requests of a behaviour on the posts tab.
MaxPostRequests == 6
\* Requests of a behaviour on the dashboard and the profiles page.
MaxDashRequests == 5
\* Requests of a behaviour of the routing shell.
MaxShellRequests == 4
\* Requests of a behaviour on the governance tab.
MaxVoteRequests == 8
\* Requests of a behaviour with a changing token.
MaxTokenRequests == 6
\* Requests of a behaviour that moves between worlds.
MaxWorldsRequests == 8
\* Requests of a behaviour that moves between the dashboard and a world.
MaxViewsRequests == 8
\* Requests of a behaviour on all tabs of one Living World.
MaxPageRequests == 8
\* Requests of a behaviour of the dashboard with its sidebar.
MaxLoadingRequests == 5
\* Requests of a behaviour that posts in a world after the dashboard.
MaxFeedRequests == 10
\* Requests of a behaviour that moves between two Living Worlds and their tabs.
MaxMountRequests == 8
\* Requests of a behaviour that leaves a view and comes back to it.
MaxErrorRequests == 8
\* Requests of a behaviour on the profiles page with its form.
MaxProfileRequests == 7

(* --------------------------- value domains ---------------------------- *)
Worlds == {"A", "B"}
Proposals == {"q1"}
Tokens == {"null", "t1", "t2"}
SessionStatus == {"loading", "authenticated", "unauthenticated"}
Tabs == {"posts", "members", "governance"}
Choices == {"agree", "disagree"}

\* JavaScript values as the code sees them: undefined, a list, a paginated
\* object carrying a `results` list, or another object.
Undefined == [t |-> "undefined", v |-> {}]
Null == [t |-> "null", v |-> {}]
List(S) == [t |-> "list", v |-> S]
Page(S) == [t |-> "page", v |-> S]
Object(S) == [t |-> "object", v |-> S]

Str(s) == [t |-> "string", v |-> s]

\* truthiness of a JavaScript value: every list and object is truthy, an
\* empty list included; the empty string is not
Truthy(x) == x.t \notin {"undefined", "null"} /\ ~(x.t = "string" /\ x.v = "")

\* response.data.results
Results(body) == IF body.t = "page" THEN List(body.v) ELSE Undefined

\* an unwrapping that takes `results` only when it has elements
UnwrapNonEmpty(body) ==
    IF Results(body).t = "list" /\ Results(body).v # {} THEN Results(body)
    ELSE body

\* response.data.results || response.data
Unwrap(body) == IF Truthy(Results(body)) THEN Results(body) ELSE body

(* ----------------------------- middleware ----------------------------- *)
\* A path is the sequence of its characters. Paths are put together from
\* pieces, so that the words of the matcher occur in them whole, as the
\* beginning of a longer word, and behind other segments.
MaxPieces == 3

Slash == <<"/">>
Pieces ==
    { Slash,
      <<"a", "p", "i">>,
      <<"s">>,
      <<"p", "o", "s", "t", "s">>,
      <<"_", "n", "e", "x", "t", "/", "s", "t", "a", "t", "i", "c">>,
      <<"_", "n", "e", "x", "t", "/", "i", "m", "a", "g", "e">>,
      <<"_", "n", "e", "x", "t">>,
      <<"f", "a", "v", "i", "c", "o", "n">>,
      <<".", "i", "c", "o">>,
      <<"x", "i", "c", "o">> }

RECURSIVE Join(_)
Join(ps) == IF ps = <<>> THEN <<>> ELSE Head(ps) \o Join(Tail(ps))

\* every path of at most MaxPieces pieces behind the leading slash
Paths ==
    {Slash \o Join(ps) :
        ps \in UNION {[1..n -> Pieces] : n \in 0..MaxPieces}}

\* the dot of a regular expression: any one character
AnyChar == "."

\* the alternatives of the negative lookahead (?!api|_next/static|
\* _next/image|favicon.ico); the dot of favicon.ico is not escaped
Lookahead ==
    { <<"a", "p", "i">>,
      <<"_", "n", "e", "x", "t", "/", "s", "t", "a", "t", "i", "c">>,
      <<"_", "n", "e", "x", "t", "/", "i", "m", "a", "g", "e">>,
      <<"f", "a", "v", "i", "c", "o", "n", AnyChar, "i", "c", "o">> }

\* the pattern pat matches the characters of s that start at position i
MatchesAt(s, i, pat) ==
    /\ Len(s) >= i - 1 + Len(pat)
    /\ \A j \in 1..Len(pat) : pat[j] = AnyChar \/ s[i - 1 + j] = pat[j]

\* config.matcher, "/((?!api|_next/static|_next/image|favicon.ico).*)",
\* anchored at both ends: a slash, no alternative of the lookahead at the
\* character behind it, then any characters at all
matcher(path) ==
    /\ Len(path) >= 1
    /\ path[1] = "/"
    /\ ~\E alt \in Lookahead : MatchesAt(path, 2, alt)

(* ------------------------------ theming ------------------------------- *)
\* what a field of theme_data may hold: nothing, null, the empty string or
\* a colour
ThemeValues == {Undefined, Null, Str(""), Str("#111111"), Str("#222222")}
ThemeFields == {"backgroundColor", "primaryColor", "secondaryColor"}

\* what theme_data may be: absent, null, or an object of the three fields
ThemeData ==
    {Undefined, Null} \cup {Object(fs) : fs \in [ThemeFields -> ThemeValues]}

\* what `world` may be when the page renders: undefined while the query has
\* no data, null, or the world object with its theme_data
WorldValues ==
    {Undefined, Null} \cup {Object([theme_data |-> td]) : td \in ThemeData}

TypeError == [t |-> "TypeError", v |-> {}]

\* o.f: reading a property of undefined or null throws
Member(o, f) == IF o.t \in {"undefined", "null"} THEN TypeError ELSE o.v[f]

\* o?.f
OptionalMember(o, f) ==
    IF o.t \in {"undefined", "null"} THEN Undefined ELSE o.v[f]

\* a ?? b
Coalesce(a, b) == IF a.t \in {"undefined", "null"} THEN b ELSE a

\* a || b
Or(a, b) == IF Truthy(a) THEN a ELSE b

DefaultColors ==
    [backgroundColor |-> Str("#f8fafc"), primaryColor |-> Str("#0ea5e9"),
     secondaryColor |-> Str("#64748b")]

\* getThemeColors with `world` as the render sees it
getThemeColors(world_) ==
    IF ~Truthy(OptionalMember(world_, "theme_data")) THEN DefaultColors
    ELSE [f \in ThemeFields |->
            Or(Member(Member(world_, "theme_data"), f), DefaultColors[f])]

(* ------------------------------ routes -------------------------------- *)
\* The pages of the application.  "none" is the state before the first
\* navigation; "/auth/signin" is the sign-in flow, which renders no view of
\* this repository.
Pages == {"HomePage", "DashboardPage", "Dashboard", "SmartProfilesPage",
          "LivingWorldPage", "/auth/signin"}

(* ---------------------------- query keys ------------------------------ *)
\* a key of the same resource that is not the dashboard's
OtherProfilesKey == <<"smartProfiles", "A">>

DashboardProfilesKey == <<"smartProfiles", "-">>
ProfilesPageKey == <<"smartProfiles", "-">>
SidebarKey == <<"userMemberships", "-">>
UserWorldsKey == <<"userWorlds", "-">>
RecentPostsKey == <<"recentPosts", "-">>
WorldKey(w) == <<"world", w>>
WorldPostsKey(w) == <<"worldPosts", w>>
WorldMembersKey(w) == <<"worldMembers", w>>
WorldProposalsKey(w) == <<"worldProposals", w>>

WorldKeys(w) ==
    <<WorldKey(w), WorldPostsKey(w), WorldMembersKey(w), WorldProposalsKey(w)>>
DashboardKeys == <<UserWorldsKey, RecentPostsKey, DashboardProfilesKey>>

Range(s) == {s[i] : i \in DOMAIN s}

KeyNames == {"world", "worldPosts", "worldMembers", "worldProposals",
             "userWorlds", "recentPosts", "smartProfiles", "userMemberships"}
Keys == KeyNames \X (Worlds \cup {"-"})

\* a world page that would fetch the members and the proposals only when
\* their tab is opened
KeysOfOpenTab(p, w) ==
    CASE p = "Dashboard" -> DashboardKeys
      [] p = "SmartProfilesPage" -> <<ProfilesPageKey>>
      [] p = "LivingWorldPage" -> <<WorldKey(w), WorldPostsKey(w)>>
      [] OTHER -> <<>>

\* the keys the hooks of page p observe, in the order of the hooks
PageKeys(p, w) ==
    CASE p = "Dashboard" -> DashboardKeys
      [] p = "SmartProfilesPage" -> <<ProfilesPageKey>>
      [] p = "LivingWorldPage" -> WorldKeys(w)
      [] OTHER -> <<>>

\* the resource a key's query function requests
UrlOf(k) ==
    CASE k[1] = "world" -> <<"GET", "/api/worlds/", k[2], "/">>
      [] k[1] = "worldPosts" -> <<"GET", "/api/worlds/", k[2], "/posts/">>
      [] k[1] = "worldMembers" -> <<"GET", "/api/worlds/", k[2], "/members/">>
      [] k[1] = "worldProposals" -> <<"GET", "/api/worlds/", k[2], "/proposals/">>
      [] k[1] = "userWorlds" -> <<"GET", "/api/memberships/", "-", "">>
      [] k[1] = "userMemberships" -> <<"GET", "/api/memberships/", "-", "">>
      [] k[1] = "recentPosts" -> <<"GET", "/api/posts/", "-", "">>
      [] OTHER -> <<"GET", "/api/smart-profiles/", "-", "">>

ProfileUrl == <<"GET", "/api/me/profile/", "-", "">>
\* the resource of one post, addressed for an edit
PostItemUrl == <<"PUT", "/api/posts/", "-", "1/">>
PostsUrl == <<"POST", "/api/posts/", "-", "">>
VotesUrl == <<"POST", "/api/votes/", "-", "">>
SmartProfilesUrl == <<"POST", "/api/smart-profiles/", "-", "">>

(* ------------------------------ state --------------------------------- *)
VARIABLES
    authToken,             \* localStorage 'authToken' ("null": nothing stored)
    session,               \* useSession().status
    route,                 \* the page that is mounted
    worldId,               \* params.worldId of LivingWorldPage
    activeTab,             \* LivingWorldPage useState('posts')
    content,               \* CreatePostForm useState(''): the textarea
    profileName,           \* SmartProfilesPage useForm: the field 'name'
    themeWorld,            \* LivingWorldPage: `world` as the last render saw it
    themeColors,           \* LivingWorldPage: const themeColors
    requestPath,           \* middleware: path of the last request to the server
    processed,             \* middleware: TRUE when it ran on that request
    sidebar,               \* TRUE while Sidebar is mounted
    cache,                 \* the query cache: key -> query state
    net,                   \* requests: id -> request
    reqCount,              \* requests issued so far
    posts,                 \* backend: world -> ids of its posts
    votes,                 \* backend: the (account, proposal) vote records
    voteCount,             \* backend: proposal -> vote_count
    profiles,              \* backend: names of the smart profiles created
    createPostMutation,    \* mutation state of LivingWorldPage
    voteMutation,          \* mutation state of LivingWorldPage
    createProfileMutation, \* mutation state of SmartProfilesPage
    userProfile,           \* Dashboard useState(null)
    pushed,                \* target of the last router.push not yet followed
    budget                 \* requests this behaviour may issue in total

client == <<route, worldId, activeTab, content, profileName, themeWorld,
           themeColors, sidebar, userProfile, pushed>>
mutations == <<createPostMutation, voteMutation, createProfileMutation>>
backend == <<posts, votes, voteCount, profiles>>
edge == <<requestPath, processed>>
vars == <<authToken, session, client, edge, cache, net, reqCount, backend,
          mutations, budget>>

(* ------------------------- initial state ------------------------------ *)
\* a query that was never fetched
IdleQuery ==
    [status |-> "idle", data |-> Undefined, isFetching |-> FALSE,
     isInvalidated |-> FALSE, fetchFailureCount |-> 0, retry |-> 0,
     retryWait |-> FALSE]

\* a mutation that was never fired
IdleMutation == [status |-> "idle", data |-> Undefined]

\* an unused request slot
Free ==
    [stage |-> "free", kind |-> "-", key |-> <<"-", "-">>,
     url |-> <<"-", "-", "-", "-">>, token |-> "-", ok |-> FALSE,
     body |-> Undefined, live |-> FALSE, world |-> "-",
     arg |-> [a |-> <<>>, b |-> "-"]]

NoKey == <<"-", "-">>

Slots == 1..budget

\* the state before the first navigation, with the backend holding the
\* posts ps
InitState(ps) ==
    /\ route = "none"
    /\ worldId = "-"
    /\ activeTab = "posts"
    /\ content = <<>>
    /\ profileName = ""
    /\ themeWorld = Undefined
    /\ themeColors = getThemeColors(Undefined)
    /\ requestPath = Slash
    /\ processed = matcher(Slash)
    /\ sidebar = FALSE
    /\ cache = [k \in Keys |-> IdleQuery]
    /\ net = [i \in Slots |-> Free]
    /\ reqCount = 0
    /\ posts = ps
    /\ votes = {}
    /\ voteCount = [p \in Proposals |-> 0]
    /\ profiles = {}
    /\ createPostMutation = IdleMutation
    /\ voteMutation = IdleMutation
    /\ createProfileMutation = IdleMutation
    /\ userProfile = Null
    /\ pushed = "none"

InitCommon == InitState([w \in Worlds |-> {}])

Init ==
    /\ authToken \in Tokens
    /\ session \in SessionStatus
    /\ budget = MaxRequests
    /\ InitCommon

(* --------------------------- query layer ------------------------------ *)
\* the retry option a view passes with its queries: `retry: false` is no
\* retry; a useQuery call without options leaves the default
DefaultRetry == 3
QueryRetry(p) == IF p = "SmartProfilesPage" THEN DefaultRetry ELSE 0

\* the token that was stored when the application started
StartupToken == "t1"

\* localStorage.getItem('authToken'), evaluated when a request function runs
RequestToken == authToken

\* the header of request r: `Bearer ${token}`, where a token that is not
\* stored (null) is written out as "null"
Authorization(r) == "Bearer " \o r.token

QueryRequest(k) ==
    [stage |-> "sent", kind |-> "query", key |-> k, url |-> UrlOf(k),
     token |-> RequestToken, ok |-> FALSE, body |-> Undefined, live |-> TRUE,
     world |-> "-", arg |-> [a |-> <<>>, b |-> "-"]]

\* Query.fetch returns the promise of the fetch in flight instead of
\* starting another one
NeedFetch(k) == ~cache[k].isFetching

\* the 'fetch' transition of a query
StartFetch(q, retry) ==
    [q EXCEPT !.isFetching = TRUE, !.fetchFailureCount = 0, !.retry = retry,
              !.retryWait = FALSE,
              !.status = IF Truthy(q.data) THEN q.status ELSE "loading"]

\* requests rs (a sequence) are handed to the network
Send(rs) ==
    /\ reqCount + Len(rs) <= budget
    /\ net' = [i \in Slots |->
                 IF i > reqCount /\ i <= reqCount + Len(rs)
                 THEN rs[i - reqCount] ELSE net[i]]
    /\ reqCount' = reqCount + Len(rs)

\* the requests that observing the keys ks (a sequence) starts
FetchRequests(ks) ==
    LET due == SelectSeq(ks, NeedFetch)
    IN [i \in 1..Len(due) |-> QueryRequest(due[i])]

\* the cache after the keys ks are observed by a view with retry option
\* `retry`: every key that is not being fetched starts a fetch (staleTime 0)
Observed(ks, retry) ==
    [k \in Keys |->
       IF k \in Range(ks) /\ NeedFetch(k) THEN StartFetch(cache[k], retry)
       ELSE cache[k]]

\* the views observing key k
Observers(k) ==
    {p \in {route} : k \in Range(PageKeys(p, worldId))}
        \cup {p \in {"Sidebar"} : sidebar /\ k = SidebarKey}

(* ----------------------------- backend -------------------------------- *)
\* The backend is not part of the frontend sources; it is modelled from the
\* interface contract: bearer-token authorization, CRUD resources, list
\* responses paginated (a `results` field) on the top-level collections.
Accounts == {"a1", "a2"}
Account(token) ==
    CASE token = "t1" -> "a1" [] token = "t2" -> "a2" [] OTHER -> "none"
AccountNo(token) ==
    CASE token = "t1" -> 1 [] token = "t2" -> 2 [] OTHER -> 0
Authorized(token) == Account(token) \in Accounts

\* the account "a1" is a member of world "A"; "a2" has no membership
MembershipsOf(a) == IF a = "a1" THEN {<<"A", 0>>} ELSE {}
MembersOf(w) == IF w = "A" THEN {<<"a1", 0>>} ELSE {}
ProposalsOf(w) == IF w = "A" THEN {<<p, voteCount[p]>> : p \in Proposals} ELSE {}
AllPosts == UNION {{<<w, n>> : n \in posts[w]} : w \in Worlds}
NextPostId == Cardinality(AllPosts) + 1

Paginated(url) == url[4] = ""
ListBody(url, S) == IF Paginated(url) THEN Page(S) ELSE List(S)

\* an object with a community_memberships list, and one without it
Profile(S) == [t |-> "profile", v |-> S]

\* the body of a successful GET
GetBody(r) ==
    LET a == Account(r.token)
        u == r.url
    IN CASE u[2] = "/api/me/profile/" -> Profile(MembershipsOf(a))
         [] u[2] = "/api/memberships/" -> ListBody(u, MembershipsOf(a))
         [] u[2] = "/api/posts/" -> ListBody(u, AllPosts)
         [] u[2] = "/api/smart-profiles/" ->
              ListBody(u, {x \in profiles : x[2] = AccountNo(r.token)})
         [] u[4] = "/" -> Object({<<u[3], 0>>})
         [] u[4] = "/posts/" -> ListBody(u, {<<u[3], n>> : n \in posts[u[3]]})
         [] u[4] = "/members/" -> ListBody(u, MembersOf(u[3]))
         [] OTHER -> ListBody(u, ProposalsOf(u[3]))

Served(r, x) == [r EXCEPT !.stage = "served", !.ok = x.ok, !.body = x.body]
Failure == [ok |-> FALSE, body |-> Undefined]
Success(body) == [ok |-> TRUE, body |-> body]

\* the answers the backend may give to a GET: an authorization failure
\* without a valid token; otherwise the resource, or a failure (not found,
\* server error).  The profile resource may come without its
\* community_memberships list.
GetResponses(r) ==
    {Failure} \cup
    (IF ~Authorized(r.token) THEN {}
     ELSE IF r.kind = "profile" THEN {Success(GetBody(r)), Success(Object({}))}
     ELSE {Success(GetBody(r))})

\* a write request that the backend has not handled yet
WritePending == \E j \in Slots : net[j].stage = "sent" /\ net[j].url[1] = "POST"

\* The backend answers the GET of request i before it handles a pending
\* write.  (A GET that no write overtakes is answered from the backend
\* state at the moment its response arrives, see Response: the two orders
\* differ only when a write is handled in between.)
ServeGet(i) ==
    /\ net[i].stage = "sent"
    /\ net[i].url[1] = "GET"
    /\ WritePending
    /\ \E x \in GetResponses(net[i]) :
         /\ x.ok
         /\ net' = [net EXCEPT ![i] = Served(@, x)]
    /\ UNCHANGED <<budget, authToken, session, client, edge, cache, reqCount, backend,
                   mutations>>

\* the responses that may arrive for the GET of request r
Response(r) ==
    IF r.stage = "served" THEN {[ok |-> r.ok, body |-> r.body]}
    ELSE GetResponses(r)

\* POST /api/posts/ {content, world_id}: the post is stored in the world
ServeCreatePost(i) ==
    /\ net[i].stage = "sent"
    /\ net[i].kind = "createPost"
    /\ \/ /\ Authorized(net[i].token)
          /\ posts' = [posts EXCEPT ![net[i].world] = @ \cup {NextPostId}]
          /\ net' = [net EXCEPT ![i] =
                       Served(@, Success(Object({<<net[i].world, NextPostId>>})))]
       \/ /\ net' = [net EXCEPT ![i] = Served(@, Failure)]
          /\ UNCHANGED posts
    /\ UNCHANGED <<budget, authToken, session, client, edge, cache, reqCount, votes,
                   voteCount, profiles, mutations>>

\* a vote_count that counts submissions
CountSubmission(a, p) == voteCount[p] + 1

\* the vote_count after the account a votes on the proposal p: one per
\* distinct voting account
CountVote(a, p) ==
    IF <<a, p>> \in votes THEN voteCount[p] ELSE voteCount[p] + 1

\* POST /api/votes/ {proposal_id, choice}
ServeVote(i) ==
    /\ net[i].stage = "sent"
    /\ net[i].kind = "vote"
    /\ \/ /\ Authorized(net[i].token)
          /\ net[i].arg.b \in Choices
          /\ LET a == Account(net[i].token)
                 p == net[i].arg.a[1]
             IN /\ voteCount' = [voteCount EXCEPT ![p] = CountVote(a, p)]
                /\ votes' = votes \cup {<<a, p>>}
                /\ net' = [net EXCEPT ![i] =
                             Served(@, Success(Object({<<p, voteCount'[p]>>})))]
       \/ /\ net' = [net EXCEPT ![i] = Served(@, Failure)]
          /\ UNCHANGED <<votes, voteCount>>
    /\ UNCHANGED <<budget, authToken, session, client, edge, cache, reqCount, posts,
                   profiles, mutations>>

\* POST /api/smart-profiles/ {name}
ServeCreateProfile(i) ==
    /\ net[i].stage = "sent"
    /\ net[i].kind = "createProfile"
    /\ \/ /\ Authorized(net[i].token)
          /\ LET x == <<net[i].arg.a[1], AccountNo(net[i].token)>>
             IN /\ profiles' = profiles \cup {x}
                /\ net' = [net EXCEPT ![i] = Served(@, Success(Object({x})))]
       \/ /\ net' = [net EXCEPT ![i] = Served(@, Failure)]
          /\ UNCHANGED profiles
    /\ UNCHANGED <<budget, authToken, session, client, edge, cache, reqCount, posts, votes,
                   voteCount, mutations>>

(* ------------------------------ views --------------------------------- *)
\* GET /api/me/profile/, issued by the effect Dashboard runs on mount
ProfileRequest ==
    [stage |-> "sent", kind |-> "profile", key |-> NoKey, url |-> ProfileUrl,
     token |-> RequestToken, ok |-> FALSE, body |-> Undefined, live |-> TRUE,
     world |-> "-", arg |-> [a |-> <<>>, b |-> "-"]]

\* a page that would issue its requests only when a token is stored
MountRequestsWithToken(p, w) ==
    IF authToken = "null" THEN <<>>
    ELSE FetchRequests(PageKeys(p, w))
             \o (IF p = "Dashboard" THEN <<ProfileRequest>> ELSE <<>>)

\* the requests a page issues when it mounts
MountRequests(p, w) ==
    FetchRequests(PageKeys(p, w))
        \o (IF p = "Dashboard" THEN <<ProfileRequest>> ELSE <<>>)

\* a DashboardPage that redirects whenever the session is not authenticated
PushUnlessAuthenticated(p, st) ==
    CASE p = "DashboardPage" /\ st # "authenticated" -> "/auth/signin"
      [] p = "HomePage" /\ st = "authenticated" -> "/dashboard"
      [] OTHER -> "none"

\* a HomePage that redirects as soon as the session status is known
PushWhenKnown(p, st) ==
    CASE p = "DashboardPage" /\ st = "unauthenticated" -> "/auth/signin"
      [] p = "HomePage" /\ st # "loading" -> "/dashboard"
      [] OTHER -> "none"

\* router.push issued while page p renders under session status st:
\* DashboardPage pushes the sign-in flow when unauthenticated, HomePage
\* pushes the dashboard when authenticated
PushOf(p, st) ==
    CASE p = "DashboardPage" /\ st = "unauthenticated" -> "/auth/signin"
      [] p = "HomePage" /\ st = "authenticated" -> "/dashboard"
      [] OTHER -> "none"

\* responses that arrive for a view that is gone no longer reach its state
Orphaned(r) ==
    IF r.kind \in {"profile", "createPost", "vote", "createProfile"}
    THEN [r EXCEPT !.live = FALSE] ELSE r

\* The router mounts page p (with params.worldId = w): the page left is
\* unmounted, the new page's hooks subscribe to their keys and its effects
\* run.
Navigate(p, w) ==
    /\ p \in Pages
    /\ w \in (IF p = "LivingWorldPage" THEN Worlds ELSE {"-"})
    /\ <<p, w>> # <<route, worldId>>
    /\ route' = p
    /\ worldId' = w
    /\ activeTab' = "posts"
    /\ content' = <<>>
    /\ profileName' = ""
    /\ userProfile' = Null
    /\ pushed' = PushOf(p, session)
    /\ createPostMutation' = IdleMutation
    /\ voteMutation' = IdleMutation
    /\ createProfileMutation' = IdleMutation
    /\ cache' = Observed(PageKeys(p, w), QueryRetry(p))
    /\ LET rs == MountRequests(p, w)
       IN /\ reqCount + Len(rs) <= budget
          /\ net' = [i \in Slots |->
                       IF i > reqCount /\ i <= reqCount + Len(rs)
                       THEN rs[i - reqCount] ELSE Orphaned(net[i])]
          /\ reqCount' = reqCount + Len(rs)
    /\ UNCHANGED <<budget, authToken, session, themeWorld, themeColors, requestPath, processed, sidebar,
                   backend>>

\* the router follows a pending router.push
FollowPush ==
    /\ pushed # "none"
    /\ Navigate(IF pushed = "/dashboard" THEN "DashboardPage" ELSE pushed, "-")

\* the dashboard layout mounts Sidebar
MountSidebar ==
    /\ ~sidebar
    /\ sidebar' = TRUE
    /\ cache' = Observed(<<SidebarKey>>, 0)
    /\ Send(FetchRequests(<<SidebarKey>>))
    /\ UNCHANGED <<budget, authToken, session, route, worldId, themeWorld, themeColors, requestPath, processed, activeTab, content,
                   profileName,
                   userProfile,
                   pushed, backend, mutations>>

\* tab buttons of LivingWorldPage, rendered once the world is loaded
SetActiveTab(t) ==
    /\ route = "LivingWorldPage"
    /\ cache[WorldKey(worldId)].status # "loading"
    /\ Truthy(cache[WorldKey(worldId)].data)
    /\ t \in Tabs \ {activeTab}
    /\ activeTab' = t
    /\ content' = <<>>
    /\ UNCHANGED <<budget, authToken, session, route, worldId, themeWorld, themeColors, requestPath, processed, profileName,
                   sidebar, userProfile,
                   pushed, cache, net, reqCount, backend, mutations>>

\* LivingWorldPage renders with `world` being w and computes themeColors
RenderTheme(w) ==
    /\ w \in WorldValues
    /\ themeWorld' = w
    /\ themeColors' = getThemeColors(w)
    /\ UNCHANGED <<budget, authToken, session, route, worldId, activeTab,
                   content, profileName, sidebar, userProfile, pushed, cache,
                   net, reqCount, backend, mutations, edge>>

\* a request for `path` reaches the server: the middleware runs on it if
\* and only if config.matcher selects the path
Request(path) ==
    /\ path \in Paths
    /\ requestPath' = path
    /\ processed' = matcher(path)
    /\ UNCHANGED <<budget, authToken, session, client, cache, net, reqCount,
                   backend, mutations>>

(* --------------------------- environment ------------------------------ *)
\* the stored token is replaced (sign-in, sign-out, rotation)
SetToken(t) ==
    /\ t \in Tokens \ {authToken}
    /\ authToken' = t
    /\ UNCHANGED <<budget, session, client, edge, cache, net, reqCount, backend,
                   mutations>>

\* the auth library reports a new session status; the mounted page renders
\* again
SetSession(st) ==
    /\ st \in SessionStatus \ {session}
    /\ session' = st
    /\ pushed' = IF PushOf(route, st) # "none" THEN PushOf(route, st) ELSE pushed
    /\ UNCHANGED <<budget, authToken, route, worldId, themeWorld, themeColors, requestPath, processed, activeTab, content,
                   profileName, sidebar, userProfile, cache, net, reqCount,
                   backend, mutations>>

(* ------------------------ query completion ---------------------------- *)
\* what a query function returns for a response body: the world detail
\* query returns the body, the list queries unwrap `results`
QueryFnResult(k, body) == IF k[1] = "world" THEN body ELSE Unwrap(body)

\* a cache that files a result under the world the page shows now
CurrentWorldKey(r) == <<r.key[1], IF r.key[2] = "-" THEN "-" ELSE worldId>>

\* the key under which the result of request r is stored
StoreKey(r) == r.key

\* the 'success' transition of a query
Succeeded(q, data) ==
    [q EXCEPT !.status = "success", !.data = data, !.isFetching = FALSE,
              !.isInvalidated = FALSE, !.fetchFailureCount = 0,
              !.retryWait = FALSE]

\* a failed attempt: retried while the retry option allows and the query
\* is observed, an 'error' transition otherwise
Failed(q, observed) ==
    IF q.fetchFailureCount < q.retry /\ observed
    THEN [q EXCEPT !.fetchFailureCount = @ + 1, !.retryWait = TRUE]
    ELSE [q EXCEPT !.status = "error", !.isFetching = FALSE,
                   !.fetchFailureCount = @ + 1, !.retryWait = FALSE]

\* the response of a query's request arrives
DeliverQuery(i) ==
    /\ net[i].stage \in {"sent", "served"}
    /\ net[i].kind = "query"
    /\ \E x \in Response(net[i]) :
         LET k == StoreKey(net[i])
         IN cache' = [cache EXCEPT ![k] =
                        IF x.ok
                        THEN Succeeded(@, QueryFnResult(net[i].key, x.body))
                        ELSE Failed(@, Observers(k) # {})]
    /\ net' = [net EXCEPT ![i] = Free]
    /\ UNCHANGED <<budget, authToken, session, client, edge, reqCount, backend,
                   mutations>>

\* the retry delay of a failed attempt has passed: the query function runs
\* again
Retry(k) ==
    /\ k \in Keys
    /\ cache[k].retryWait
    /\ IF Observers(k) # {}
       THEN /\ cache' = [cache EXCEPT ![k].retryWait = FALSE]
            /\ Send(<<QueryRequest(k)>>)
       ELSE /\ cache' = [cache EXCEPT ![k] = Failed(@, FALSE)]
            /\ UNCHANGED <<net, reqCount>>
    /\ UNCHANGED <<budget, authToken, session, client, edge, backend, mutations>>

\* the response of Dashboard's fetchProfile arrives: setUserProfile on
\* success, console.error on failure
DeliverProfile(i) ==
    /\ net[i].stage \in {"sent", "served"}
    /\ net[i].kind = "profile"
    /\ \E x \in Response(net[i]) :
         userProfile' = IF x.ok /\ net[i].live THEN x.body ELSE userProfile
    /\ net' = [net EXCEPT ![i] = Free]
    /\ UNCHANGED <<budget, authToken, session, route, worldId, themeWorld, themeColors, requestPath, processed, activeTab, content,
                   profileName,
                   sidebar,
                   pushed, cache, reqCount, backend, mutations>>

(* ----------------------------- mutations ------------------------------ *)
\* String.prototype.trim on a sequence of characters
RECURSIVE TrimStart(_)
TrimStart(c) == IF c # <<>> /\ Head(c) = " " THEN TrimStart(Tail(c)) ELSE c
RECURSIVE TrimEnd(_)
TrimEnd(c) ==
    IF c # <<>> /\ c[Len(c)] = " " THEN TrimEnd(SubSeq(c, 1, Len(c) - 1)) ELSE c
Trim(c) == TrimEnd(TrimStart(c))

\* what the user may have typed into the textarea of CreatePostForm
Drafts == {<<>>, <<" ">>, <<"h">>, <<" ", "h", " ">>}
\* what the user may have typed into the name field of the profile form:
\* nothing, or a name (of one blank: `required` rejects the empty name only)
Names == {"", " "}

MutationRequest(kind, url, world, a, b) ==
    [stage |-> "sent", kind |-> kind, key |-> NoKey, url |-> url,
     token |-> RequestToken, ok |-> FALSE, body |-> Undefined, live |-> TRUE,
     world |-> world, arg |-> [a |-> a, b |-> b]]

Pending == [status |-> "loading", data |-> Undefined]

\* a world page that renders its tabs as soon as it is mounted
WorldMounted == route = "LivingWorldPage"

\* the world page shows its tabs once the world query has data
WorldShown ==
    /\ route = "LivingWorldPage"
    /\ cache[WorldKey(worldId)].status # "loading"
    /\ Truthy(cache[WorldKey(worldId)].data)

\* a test of the draft as typed
TypedDraft(c) == c # <<>>

\* `if (content.trim())`: the draft is submitted when it trims to something
SubmitsDraft(c) == Trim(c) # <<>>

\* submit controls that stay enabled while their mutation is pending
NeverDisabled(m) == FALSE

\* `disabled={mutation.isLoading}` of the Post button, of every Agree and
\* Disagree button and of the Create Profile button
Disabled(m) == m.status = "loading"

\* the textarea's onChange: setContent(e.target.value)
setContent(c) ==
    /\ c \in Drafts \ {content}
    /\ WorldShown
    /\ activeTab = "posts"
    /\ content' = c
    /\ UNCHANGED <<budget, authToken, session, route, worldId, themeWorld, themeColors, requestPath, processed, activeTab,
                   profileName, sidebar, userProfile, pushed, cache, net, reqCount, backend,
                   mutations>>

\* a form that keeps the draft after it was submitted
Kept(c) == c

\* `setContent('')` after onSubmit
Cleared(c) == <<>>

\* CreatePostForm.handleSubmit with the draft c in the textarea; the
\* submit button is disabled while the draft trims to nothing or the
\* mutation is pending
handleSubmit(c) ==
    /\ c \in Drafts
    /\ content = c
    /\ WorldShown
    /\ activeTab = "posts"
    /\ ~Disabled(createPostMutation)
    /\ SubmitsDraft(c)
    /\ reqCount + 2 <= budget
    /\ createPostMutation' = Pending
    /\ Send(<<MutationRequest("createPost", PostsUrl, worldId, Trim(c), "-")>>)
    /\ content' = Cleared(c)
    /\ UNCHANGED <<budget, authToken, session, route, worldId, themeWorld, themeColors, requestPath, processed, activeTab,
                   profileName, sidebar, userProfile, pushed, cache, backend, voteMutation,
                   createProfileMutation>>

\* the proposals the governance tab lists
ProposalsShown ==
    IF /\ WorldShown
       /\ activeTab = "governance"
       /\ cache[WorldProposalsKey(worldId)].status # "loading"
       /\ Truthy(cache[WorldProposalsKey(worldId)].data)
    THEN {x[1] : x \in cache[WorldProposalsKey(worldId)].data.v}
    ELSE {}

\* an Agree or Disagree button of proposal p is clicked; the buttons are
\* disabled while the vote mutation is pending
Vote(p, choice) ==
    /\ p \in ProposalsShown
    /\ choice \in Choices
    /\ ~Disabled(voteMutation)
    /\ reqCount + 2 <= budget
    /\ voteMutation' = Pending
    /\ Send(<<MutationRequest("vote", VotesUrl, worldId, <<p>>, choice)>>)
    /\ UNCHANGED <<budget, authToken, session, client, edge, cache, backend,
                   createPostMutation, createProfileMutation>>

\* the name field's onChange (register('name'))
registerName(name) ==
    /\ name \in Names \ {profileName}
    /\ route = "SmartProfilesPage"
    /\ profileName' = name
    /\ UNCHANGED <<budget, authToken, session, route, worldId, themeWorld, themeColors, requestPath, processed, activeTab,
                   content, sidebar, userProfile, pushed, cache, net, reqCount,
                   backend, mutations>>

\* the profile form is submitted with `name`; the field is required and the
\* button is disabled while the mutation is pending
onSubmit(name) ==
    /\ name \in Names
    /\ profileName = name
    /\ route = "SmartProfilesPage"
    /\ name # ""
    /\ ~Disabled(createProfileMutation)
    /\ reqCount + 2 <= budget
    /\ createProfileMutation' = Pending
    /\ Send(<<MutationRequest("createProfile", SmartProfilesUrl, "-",
                              <<name>>, "-")>>)
    /\ UNCHANGED <<budget, authToken, session, client, edge, cache, backend,
                   createPostMutation, voteMutation>>

\* the key a mutation's onSuccess invalidates
InvalidatedKey(r) ==
    CASE r.kind = "createPost" -> WorldPostsKey(r.world)
      [] r.kind = "vote" -> WorldProposalsKey(r.world)
      [] OTHER -> <<"smartProfiles", "-">>

\* queryClient.invalidateQueries(k): the query is marked invalidated and,
\* when it is observed, fetched again through Query.fetch
Invalidated(k) ==
    [c \in Keys |->
       IF c # k \/ cache[c].status = "idle" THEN cache[c]
       ELSE IF Observers(c) # {} /\ NeedFetch(c)
       THEN StartFetch([cache[c] EXCEPT !.isInvalidated = TRUE],
                       QueryRetry(route))
       ELSE [cache[c] EXCEPT !.isInvalidated = TRUE]]

InvalidateRequests(k) ==
    IF cache[k].status # "idle" /\ Observers(k) # {}
    THEN FetchRequests(<<k>>) ELSE <<>>

\* an onSuccess callback that also writes the mutation's result into the
\* cached list
WriteOnSuccess(r) ==
    [Invalidated(InvalidatedKey(r)) EXCEPT
       ![InvalidatedKey(r)].data = List(@.v \cup r.body.v)]

\* an onSuccess callback that calls invalidateQueries() without a key:
\* every query that has been fetched is marked
OnSuccessWithoutKey(r) ==
    [c \in Keys |->
       IF cache[c].status = "idle" THEN Invalidated(InvalidatedKey(r))[c]
       ELSE [Invalidated(InvalidatedKey(r))[c] EXCEPT !.isInvalidated = TRUE]]

\* the cache after the onSuccess callback of the mutation of request r
OnSuccess(r) == Invalidated(InvalidatedKey(r))

\* callbacks that invalidate when the mutation settles, failed or not
CacheAfterSettled(r) == OnSuccess(r)

\* the cache after the callbacks of the mutation of request r have run:
\* the mutations register onSuccess only, no onError and no onSettled
CacheAfter(r) == IF r.ok THEN OnSuccess(r) ELSE cache

\* the requests those callbacks issue
RequestsAfter(r) ==
    IF r.ok THEN InvalidateRequests(InvalidatedKey(r)) ELSE <<>>

\* a form that is reset when its request settles, failed or not
FieldAfterSettled(r, name) ==
    IF r.kind = "createProfile" /\ r.live THEN "" ELSE name

\* the name field after the callbacks of the mutation of request r: reset()
\* in onSuccess of createProfileMutation, for the form that is mounted
FieldAfter(r, name) ==
    IF r.kind = "createProfile" /\ r.ok /\ r.live THEN "" ELSE name

\* the state of the mutation instance after its response
Settled(m, r) ==
    IF ~r.live THEN m
    ELSE IF r.ok THEN [status |-> "success", data |-> r.body]
    ELSE [status |-> "error", data |-> Undefined]

\* the response of a mutation's request arrives
DeliverMutation(i) ==
    /\ net[i].stage = "served"
    /\ net[i].kind \in {"createPost", "vote", "createProfile"}
    /\ LET r == net[i]
           rs == RequestsAfter(r)
       IN /\ cache' = CacheAfter(r)
          /\ net' = [j \in Slots |->
                       IF j = i THEN Free
                       ELSE IF j > reqCount /\ j <= reqCount + Len(rs)
                       THEN rs[j - reqCount] ELSE net[j]]
          /\ reqCount' = reqCount + Len(rs)
          /\ createPostMutation' =
               IF r.kind = "createPost" THEN Settled(createPostMutation, r)
               ELSE createPostMutation
          /\ voteMutation' =
               IF r.kind = "vote" THEN Settled(voteMutation, r)
               ELSE voteMutation
          /\ createProfileMutation' =
               IF r.kind = "createProfile"
               THEN Settled(createProfileMutation, r)
               ELSE createProfileMutation
          /\ profileName' = FieldAfter(r, profileName)
    /\ UNCHANGED <<budget, authToken, session, route, worldId, themeWorld, themeColors, requestPath, processed, activeTab,
                   content, sidebar, userProfile, pushed, backend>>

(* ----------------------------- rendering ------------------------------ *)
\* a loading test that asks whether data is there
NoData(k) == ~Truthy(cache[k].data)

\* isLoading of a query observer
IsLoading(k) == cache[k].status = "loading"

\* a region that renders a list query: skeleton, list or empty state
ListRegion(k) ==
    IF IsLoading(k) THEN "skeleton"
    ELSE IF Truthy(cache[k].data) /\ cache[k].data.v # {} THEN "list"
    ELSE "empty"

\* Dashboard, "Your Living Worlds": gated by the userWorlds query, filled
\* from userProfile.community_memberships; reading .length of a missing
\* list throws
WorldListRegion ==
    IF IsLoading(UserWorldsKey) THEN "skeleton"
    ELSE IF Truthy(userProfile)
    THEN (IF userProfile.t # "profile" THEN "TypeError"
          ELSE IF userProfile.v # {} THEN "list" ELSE "prompt")
    ELSE "prompt"

\* a "Recent Activity" region that takes its loading flag from the
\* profiles query
ActivityRegionByProfiles ==
    IF IsLoading(DashboardProfilesKey) THEN "skeleton"
    ELSE IF Truthy(cache[RecentPostsKey].data) /\ cache[RecentPostsKey].data.v # {}
    THEN "list"
    ELSE "empty"

\* Dashboard, "Your Smart Profiles" and "Recent Activity"
ProfilesRegion == ListRegion(DashboardProfilesKey)
ActivityRegion == ListRegion(RecentPostsKey)

\* Sidebar, "Your Worlds"
SidebarRegion == ListRegion(SidebarKey)

\* LivingWorldPage: the early returns on the world query
WorldPage ==
    IF IsLoading(WorldKey(worldId)) THEN "spinner"
    ELSE IF ~Truthy(cache[WorldKey(worldId)].data) THEN "notfound"
    ELSE "page"

\* LivingWorldPage: the region of a tab and of the list query it renders
TabRegion(tab, k) ==
    IF WorldPage # "page" THEN WorldPage
    ELSE IF activeTab # tab THEN "hidden"
    ELSE ListRegion(k)

PostsRegion == TabRegion("posts", WorldPostsKey(worldId))
MembersRegion == TabRegion("members", WorldMembersKey(worldId))
ProposalsRegion == TabRegion("governance", WorldProposalsKey(worldId))

\* the region of the mounted view that renders the query of key k
RegionOf(k) ==
    CASE k = UserWorldsKey -> WorldListRegion
      [] k = RecentPostsKey -> ActivityRegion
      [] k = DashboardProfilesKey -> ProfilesRegion
      [] k = WorldKey(worldId) -> WorldPage
      [] k = WorldPostsKey(worldId) -> PostsRegion
      [] k = WorldMembersKey(worldId) -> MembersRegion
      [] k = WorldProposalsKey(worldId) -> ProposalsRegion
      [] OTHER -> "none"

\* what the user sees of that region: an error thrown while Dashboard
\* renders takes the whole view down
Region(k) ==
    IF route = "Dashboard" /\ WorldListRegion = "TypeError" THEN "crashed"
    ELSE RegionOf(k)

\* the keys the mounted view renders
ViewKeys == Range(PageKeys(route, worldId))

\* DashboardPage under the session status
DashboardPageRender ==
    CASE session = "loading" -> "placeholder"
      [] session = "unauthenticated" -> "null"
      [] OTHER -> "content"

(* -------------------------- specifications ---------------------------- *)
\* a signed-in user with a stored token
InitSignedIn(b) ==
    /\ authToken = "t1"
    /\ session = "authenticated"
    /\ budget = b
    /\ InitCommon

\* the posts tab of one Living World
NextPost ==
    \/ Navigate("LivingWorldPage", "A")
    \/ \E t \in Tabs : SetActiveTab(t)
    \/ \E i \in Slots : ServeGet(i)
    \/ \E i \in Slots : ServeCreatePost(i)
    \/ \E i \in Slots : DeliverQuery(i)
    \/ \E i \in Slots : DeliverMutation(i)
    \/ \E c \in Drafts : setContent(c)
    \/ \E c \in Drafts : handleSubmit(c)

SpecPost == InitSignedIn(MaxPostRequests) /\ [][NextPost]_vars

\* the dashboard, the profiles page and the sidebar, for either account
NextDash ==
    \/ \E p \in {"Dashboard", "SmartProfilesPage"} : Navigate(p, "-")
    \/ MountSidebar
    \/ \E i \in Slots : DeliverQuery(i)
    \/ \E i \in Slots : DeliverProfile(i)
    \/ \E k \in Keys : Retry(k)

InitDash ==
    /\ authToken \in {"t1", "t2"}
    /\ session = "authenticated"
    /\ budget = MaxDashRequests
    /\ InitCommon

SpecDash == InitDash /\ [][NextDash]_vars

\* the profiles page with its form
NextProfiles ==
    \/ Navigate("SmartProfilesPage", "-")
    \/ \E n \in Names : registerName(n)
    \/ \E n \in Names : onSubmit(n)
    \/ \E i \in Slots : ServeGet(i)
    \/ \E i \in Slots : ServeCreateProfile(i)
    \/ \E i \in Slots : DeliverQuery(i)
    \/ \E i \in Slots : DeliverMutation(i)
    \/ \E k \in Keys : Retry(k)

SpecProfiles == InitSignedIn(MaxProfileRequests) /\ [][NextProfiles]_vars

\* the theme of the world page, for every shape of `world`
NextTheme == \E w \in WorldValues : RenderTheme(w)

SpecTheme == InitSignedIn(MaxRequests) /\ [][NextTheme]_vars

\* the middleware, for every path
NextMiddleware == \E path \in Paths : Request(path)

SpecMiddleware == InitSignedIn(MaxRequests) /\ [][NextMiddleware]_vars

\* the routing shell: every page under every session status
NextShell ==
    \/ \E p \in Pages, w \in Worlds \cup {"-"} : Navigate(p, w)
    \/ FollowPush
    \/ \E st \in SessionStatus : SetSession(st)
    \/ \E i \in Slots : DeliverQuery(i)
    \/ \E i \in Slots : DeliverProfile(i)

InitShell ==
    /\ authToken \in {"null", "t1"}
    /\ session \in SessionStatus
    /\ budget = MaxShellRequests
    /\ InitCommon

SpecShell == InitShell /\ [][NextShell]_vars

\* the governance tab of one Living World, for two accounts
NextVote ==
    \/ Navigate("LivingWorldPage", "A")
    \/ \E t \in Tabs : SetActiveTab(t)
    \/ \E t \in {"t1", "t2"} : SetToken(t)
    \/ \E i \in Slots : ServeGet(i)
    \/ \E i \in Slots : ServeVote(i)
    \/ \E i \in Slots : DeliverQuery(i)
    \/ \E i \in Slots : DeliverMutation(i)
    \/ \E p \in Proposals, ch \in Choices : Vote(p, ch)

SpecVote == InitSignedIn(MaxVoteRequests) /\ [][NextVote]_vars

\* a Living World and the sidebar, with the stored token changing
NextToken ==
    \/ Navigate("LivingWorldPage", "A")
    \/ MountSidebar
    \/ \E t \in Tokens : SetToken(t)
    \/ \E i \in Slots : ServeGet(i)
    \/ \E i \in Slots : ServeCreatePost(i)
    \/ \E i \in Slots : DeliverQuery(i)
    \/ \E i \in Slots : DeliverMutation(i)
    \/ setContent(<<"h">>)
    \/ \E c \in Drafts : handleSubmit(c)

SpecToken == InitSignedIn(MaxTokenRequests) /\ [][NextToken]_vars

\* two Living Worlds, reads only
NextWorlds ==
    \/ \E w \in Worlds : Navigate("LivingWorldPage", w)
    \/ \E i \in Slots : DeliverQuery(i)

\* world A has a post already, world B has none
InitWorlds ==
    /\ authToken = "t1"
    /\ session = "authenticated"
    /\ budget = MaxWorldsRequests
    /\ InitState([w \in Worlds |-> IF w = "A" THEN {1} ELSE {}])

SpecWorlds == InitWorlds /\ [][NextWorlds]_vars

\* the dashboard and one Living World, reads only
NextViews ==
    \/ Navigate("Dashboard", "-")
    \/ Navigate("LivingWorldPage", "A")
    \/ \E t \in Tabs : SetActiveTab(t)
    \/ \E i \in Slots : DeliverQuery(i)
    \/ \E i \in Slots : DeliverProfile(i)

SpecViews == InitSignedIn(MaxViewsRequests) /\ [][NextViews]_vars

\* one Living World with its post form and its vote buttons
NextPage ==
    \/ Navigate("LivingWorldPage", "A")
    \/ \E t \in Tabs : SetActiveTab(t)
    \/ \E i \in Slots : ServeGet(i)
    \/ \E i \in Slots : ServeCreatePost(i)
    \/ \E i \in Slots : ServeVote(i)
    \/ \E i \in Slots : DeliverQuery(i)
    \/ \E i \in Slots : DeliverMutation(i)
    \/ setContent(<<"h">>)
    \/ \E c \in Drafts : handleSubmit(c)
    \/ \E p \in Proposals, ch \in Choices : Vote(p, ch)

SpecPage == InitSignedIn(MaxPageRequests) /\ [][NextPage]_vars

\* the dashboard with its sidebar, every response arriving eventually
NextLoading ==
    \/ Navigate("Dashboard", "-")
    \/ MountSidebar
    \/ \E i \in Slots : DeliverQuery(i)
    \/ \E i \in Slots : DeliverProfile(i)

\* every request of a query eventually gets its response
EveryRequestAnswered ==
    \A i \in 1..MaxLoadingRequests : WF_vars(DeliverQuery(i))

SpecLoading ==
    /\ InitSignedIn(MaxLoadingRequests)
    /\ [][NextLoading]_vars
    /\ EveryRequestAnswered

\* two Living Worlds with their posts and members tabs, reads only
NextMounts ==
    \/ \E w \in Worlds : Navigate("LivingWorldPage", w)
    \/ \E t \in {"posts", "members"} : SetActiveTab(t)
    \/ \E i \in Slots : DeliverQuery(i)

InitMounts ==
    /\ authToken = "t1"
    /\ session = "authenticated"
    /\ budget = MaxMountRequests
    /\ InitState([w \in Worlds |-> IF w = "A" THEN {1} ELSE {}])

SpecMounts == InitMounts /\ [][NextMounts]_vars

\* the dashboard and one Living World, left for the home page and mounted
\* again, reads only
NextErrors ==
    \/ Navigate("Dashboard", "-")
    \/ Navigate("HomePage", "-")
    \/ Navigate("LivingWorldPage", "A")
    \/ \E i \in Slots : DeliverQuery(i)
    \/ \E i \in Slots : DeliverProfile(i)

InitErrors ==
    /\ authToken = "t1"
    /\ session = "authenticated"
    /\ budget = MaxErrorRequests
    /\ InitState([w \in Worlds |-> IF w = "A" THEN {1} ELSE {}])

SpecErrors == InitErrors /\ [][NextErrors]_vars

\* the dashboard's activity feed and the post form of one Living World
NextFeed ==
    \/ Navigate("Dashboard", "-")
    \/ Navigate("LivingWorldPage", "A")
    \/ \E i \in Slots : ServeCreatePost(i)
    \/ \E i \in Slots : DeliverQuery(i)
    \/ \E i \in Slots : DeliverMutation(i)
    \/ setContent(<<"h">>)
    \/ \E c \in Drafts : handleSubmit(c)

SpecFeed == InitSignedIn(MaxFeedRequests) /\ [][NextFeed]_vars

Next ==
    \/ \E p \in Pages, w \in Worlds \cup {"-"} : Navigate(p, w)
    \/ FollowPush
    \/ MountSidebar
    \/ \E t \in Tabs : SetActiveTab(t)
    \/ \E t \in Tokens : SetToken(t)
    \/ \E st \in SessionStatus : SetSession(st)
    \/ \E i \in Slots : ServeGet(i)
    \/ \E i \in Slots : ServeCreatePost(i)
    \/ \E i \in Slots : ServeVote(i)
    \/ \E i \in Slots : ServeCreateProfile(i)
    \/ \E i \in Slots : DeliverQuery(i)
    \/ \E i \in Slots : DeliverProfile(i)
    \/ \E i \in Slots : DeliverMutation(i)
    \/ \E k \in Keys : Retry(k)
    \/ setContent(<<"h">>)
    \/ \E c \in Drafts : handleSubmit(c)
    \/ \E p \in Proposals, ch \in Choices : Vote(p, ch)
    \/ \E n \in Names : registerName(n)
    \/ \E n \in Names : onSubmit(n)

Spec == Init /\ [][Next]_vars

(* ------------------------------ claims -------------------------------- *)
\* C1: on the world page, once a create-post has succeeded and the
\* worldPosts query of that world has settled with a successful fetch, the
\* post list held for ['worldPosts', W] contains the created post, whatever
\* the order of the mutation response and a worldPosts fetch in flight.
C1_CreatedPostShown ==
    (/\ route = "LivingWorldPage"
     /\ createPostMutation.status = "success"
     /\ cache[WorldPostsKey(worldId)].status = "success"
     /\ ~cache[WorldPostsKey(worldId)].isFetching)
    => createPostMutation.data.v \subseteq cache[WorldPostsKey(worldId)].data.v

\* the requests of the query of key k that are in flight
InFlight(k) ==
    {i \in Slots : net[i].stage # "free" /\ net[i].kind = "query" /\ net[i].key = k}

\* the query requests for the smart-profiles resource that are in flight
ProfilesInFlight ==
    {i \in Slots : /\ net[i].stage # "free"
                   /\ net[i].kind = "query"
                   /\ net[i].url = UrlOf(DashboardProfilesKey)}

\* C2: no key ever has two requests in flight, a request in flight belongs
\* to a query that is fetching, and Dashboard and SmartProfilesPage, which
\* observe the same 'smartProfiles' key, never have two requests for the
\* smart-profiles resource in flight: observing a key that is being fetched
\* issues no second network call.
C2_SingleFlight ==
    /\ \A k \in Keys :
         /\ Cardinality(InFlight(k)) <= 1
         /\ InFlight(k) # {} => cache[k].isFetching
    /\ Cardinality(ProfilesInFlight) <= 1

\* Dashboard mounted first and issued its four requests, the profiles page
\* was opened while the 'smartProfiles' request was in flight, and no
\* request was issued for it
C2_SecondObserverShares ==
    /\ route = "SmartProfilesPage"
    /\ reqCount = 4
    /\ InFlight(ProfilesPageKey) = {3}
    /\ cache[ProfilesPageKey].isFetching

\* the views behind the sign-in
ProtectedViews ==
    {"DashboardPage", "Dashboard", "LivingWorldPage", "SmartProfilesPage"}

\* C3: while the session is unauthenticated, a mounted protected view has
\* issued the redirect to the sign-in flow and has no fetch of its queries
\* in flight.
C3_ProtectedViewsRedirect ==
    (session = "unauthenticated" /\ route \in ProtectedViews)
    => /\ pushed = "/auth/signin"
       /\ \A k \in Range(PageKeys(route, worldId)) : InFlight(k) = {}

\* the accounts that have voted on proposal p
Voters(p) == {a \in Accounts : <<a, p>> \in votes}

C5_EmptyStatePrompt ==
    (/\ MembershipsOf(Account(authToken)) = {}
     /\ route = "Dashboard"
     /\ ~IsLoading(UserWorldsKey))
    => WorldListRegion = "prompt"

\* C6: a failed fetch is never retried on its own: a query whose last
\* fetch has a failed attempt (the failure count is cleared by the fetch a
\* remount, a key change or an invalidation starts) has no request in
\* flight.
C6_NoAutomaticRetry ==
    \A k \in Keys : cache[k].fetchFailureCount > 0 => InFlight(k) = {}

\* a mutation has been fired and the re-fetch its success triggers has not
\* completed
MutationWindow ==
    \/ createPostMutation.status = "loading"
    \/ voteMutation.status = "loading"
    \/ createProfileMutation.status = "loading"
    \/ /\ createPostMutation.status = "success"
       /\ cache[WorldPostsKey(worldId)].isInvalidated
    \/ /\ voteMutation.status = "success"
       /\ cache[WorldProposalsKey(worldId)].isInvalidated
    \/ /\ createProfileMutation.status = "success"
       /\ cache[ProfilesPageKey].isInvalidated

\* this step delivers a successful response to a fetch of key k and stores
\* what the query function makes of its body
DeliveredFor(k) ==
    \E i \in Slots :
       /\ net[i].stage # "free"
       /\ net[i].kind = "query"
       /\ net[i].key = k
       /\ net'[i] = Free
       /\ \E x \in Response(net[i]) :
            x.ok /\ cache'[k].data = QueryFnResult(k, x.body)

\* C7 as stated: from the firing of a mutation until the re-fetch its
\* success triggers completes, no step changes the cached data of any key,
\* and cached data only ever changes to the result of a response to a fetch
\* of its key.
C7_CacheFrozenInWindow ==
    [][/\ (MutationWindow /\ MutationWindow')
          => \A k \in Keys : cache'[k].data = cache[k].data
       /\ \A k \in Keys : cache'[k].data # cache[k].data => DeliveredFor(k)]_vars

\* C7, amended: the cached data of a key changes only in a step that
\* delivers a successful response to a fetch of that key, and then to the
\* query function's result for that response; firing a mutation, its
\* response and its onSuccess callback change no cached data.
C7_DataOnlyFromResponses ==
    [][\A k \in Keys : cache'[k].data # cache[k].data => DeliveredFor(k)]_vars

\* a create-post has succeeded and the backend holds the post, the
\* invalidated list is being fetched again and the cache still holds the
\* list from before the mutation
C7_StaleUntilRefetch ==
    /\ createPostMutation.status = "success"
    /\ posts["A"] # {}
    /\ cache[WorldPostsKey("A")].isInvalidated
    /\ cache[WorldPostsKey("A")].isFetching
    /\ cache[WorldPostsKey("A")].data = List({})

\* C8: every request a step issues, fetch or mutation, carries the token
\* that is stored when the step runs; after the stored token is replaced no
\* new request carries the old one.
C8_TokenAtCallTime ==
    [][\A i \in Slots :
         (i > reqCount /\ i <= reqCount') =>
            /\ net'[i].stage = "sent"
            /\ net'[i].token = authToken']_vars

\* a fetch issued under the token t1 is still in flight, the stored token
\* has been replaced by t2, and a create-post issued afterwards carries t2
C8_LaterRequestNewToken ==
    /\ authToken = "t2"
    /\ \E i, j \in Slots :
         /\ i < j
         /\ net[i].stage = "sent" /\ net[i].kind = "query"
         /\ net[i].token = "t1"
         /\ net[j].stage = "sent" /\ net[j].kind = "createPost"
         /\ net[j].token = "t2"

\* what the query function of key k returns for the resource of k
ResourceOf(k) == QueryFnResult(k, GetBody(QueryRequest(k)))

\* every key of a world holds nothing or the resource of that very world,
\* and every request in flight asks for the resource of its own key
KeyedByWorld ==
    /\ \A w \in Worlds : \A k \in Range(WorldKeys(w)) :
         cache[k].data \in {Undefined, ResourceOf(k)}
    /\ \A i \in Slots :
         (net[i].stage # "free" /\ net[i].kind = "query")
            => net[i].url = UrlOf(net[i].key)

\* the arrival of a successful response replaces whatever the key held
LastFetchWins ==
    \A i \in Slots :
       (/\ net[i].stage # "free" /\ net[i].kind = "query" /\ net'[i] = Free
        /\ cache'[net[i].key].status = "success"
        /\ ~cache'[net[i].key].isFetching)
       => \E x \in Response(net[i]) :
            x.ok /\ cache'[net[i].key].data = QueryFnResult(net[i].key, x.body)

\* C9: the result of a fetch issued for a key of world A is stored under
\* that key only, so no key of world B ever holds data of world A, also
\* when worldId changes while the fetch is in flight; the arrival of a
\* successful response of a key replaces what the key held.
C9_ExactKeyLastWins == []KeyedByWorld /\ [][LastFetchWins]_vars

\* worldId has changed from A to B while the posts of A were being fetched:
\* that fetch is still in flight, a result of A is stored under A's key and
\* the posts tab of B shows B's own list
C9_WorldChangedInFlight ==
    /\ route = "LivingWorldPage" /\ worldId = "B"
    /\ net[2].stage = "sent" /\ net[2].key = WorldPostsKey("A")
    /\ cache[WorldKey("A")].data = Object({<<"A", 0>>})
    /\ cache[WorldKey("B")].data = Object({<<"B", 0>>})
    /\ cache[WorldPostsKey("B")].data = List({})
    /\ cache[WorldPostsKey("B")].status = "success"

\* this step is the arrival of the response of request i
Arrives(i) ==
    /\ net[i].stage # "free"
    /\ net[i].kind \in {"query", "profile"}
    /\ net'[i] = Free

\* the queries a whole view waits for or whose region can throw: the world
\* query of the world page, the 'userWorlds' query of Dashboard
Gates == {WorldKey(worldId), UserWorldsKey}

MutationStates == {"idle", "loading", "success", "error"}

\* this step is the arrival of the response of the mutation request i
MutationArrives(i) ==
    /\ net[i].stage = "served"
    /\ net[i].kind \in {"createPost", "vote", "createProfile"}
    /\ net'[i] = Free

\* the page is mounted anew: its mutation instances are new ones
Remounted == <<route, worldId>>' # <<route, worldId>>

\* a step of one mutation instance from state m to state n whose requests
\* are of kind `kind`
MutationStep(m, n, kind) ==
    /\ n.status \in MutationStates
    /\ (m.status = "loading" /\ n.status # "loading" /\ ~Remounted)
         => /\ n.status \in {"success", "error"}
            /\ \E i \in Slots :
                 /\ MutationArrives(i) /\ net[i].kind = kind
                 /\ n.status = (IF net[i].ok THEN "success" ELSE "error")
    /\ (m.status # "loading" /\ n.status # m.status /\ ~Remounted)
         => /\ n.status = "loading"
            /\ reqCount' = reqCount + 1
            /\ net'[reqCount'].kind = kind

\* C11: every mutation instance is in one of its states; it becomes pending
\* by being fired and leaves pending only with the arrival of its response,
\* to success or to error; a key becomes invalidated only with the arrival
\* of a successful mutation response, and the arrival of a failed one
\* changes no cache entry and issues no request.
C11_MutationTriState ==
    [][/\ MutationStep(createPostMutation, createPostMutation', "createPost")
       /\ MutationStep(voteMutation, voteMutation', "vote")
       /\ MutationStep(createProfileMutation, createProfileMutation',
                       "createProfile")
       /\ \A k \in Keys :
            (~cache[k].isInvalidated /\ cache'[k].isInvalidated)
               => \E i \in Slots :
                    MutationArrives(i) /\ net[i].ok /\ InvalidatedKey(net[i]) = k
       /\ \A i \in Slots :
            (MutationArrives(i) /\ ~net[i].ok)
               => cache' = cache /\ reqCount' = reqCount]_vars

\* a create-post has failed while the post list was still being fetched:
\* the mutation is in error, no key is invalidated and no request was
\* issued after the POST
C11_FailedMutation ==
    /\ createPostMutation.status = "error"
    /\ reqCount = 5
    /\ cache[WorldPostsKey("A")].isFetching
    /\ \A k \in Keys : ~cache[k].isInvalidated

Stored(k, body) ==
    IF k[1] # "world" /\ body.t = "page" THEN List(body.v) ELSE body

\* C13: when a successful response of a query arrives, the data stored
\* under its key is the `results` list of the body when the body has one,
\* an empty one included, and the body itself otherwise; the world detail
\* query stores the body unchanged.
C13_ResultsUnwrapped ==
    [][\A i \in Slots :
         (/\ Arrives(i) /\ net[i].kind = "query"
          /\ cache'[net[i].key].status = "success"
          /\ ~cache'[net[i].key].isFetching)
         => \E x \in Response(net[i]) :
              x.ok /\ cache'[net[i].key].data = Stored(net[i].key, x.body)]_vars

\* a paginated response with an empty `results`, a bare list and a world
\* detail object have all been stored
C13_AllShapesStored ==
    /\ cache[RecentPostsKey].status = "success"
    /\ cache[RecentPostsKey].data = List({})
    /\ cache[UserWorldsKey].data = List({<<"A", 0>>})
    /\ cache[WorldMembersKey("A")].data = List({<<"a1", 0>>})
    /\ cache[WorldKey("A")].data = Object({<<"A", 0>>})

\* the three tab regions of the world page
TabRegions == {PostsRegion, MembersRegion, ProposalsRegion}

\* C14: on the world page, a world query that has finished without data
\* leaves nothing but the 'World not found' fallback and a loading world
\* query nothing but the spinner; in both states no tab is rendered, no
\* tab can be switched and no step issues a create-post or vote request.
C14_NotFoundIsStatic ==
    [][route = "LivingWorldPage" =>
         /\ (~cache[WorldKey(worldId)].isFetching
              /\ ~Truthy(cache[WorldKey(worldId)].data))
              => TabRegions = {"notfound"}
         /\ IsLoading(WorldKey(worldId)) => TabRegions = {"spinner"}
         /\ (WorldPage # "page" /\ ~Remounted)
              => /\ activeTab' = activeTab
                 /\ \A i \in Slots :
                      (i > reqCount /\ i <= reqCount') => net'[i].kind = "query"]_vars

\* the world query of A has failed while the post list of A has arrived:
\* the page shows the fallback
C14_NotFoundShown ==
    /\ route = "LivingWorldPage"
    /\ cache[WorldKey("A")].status = "error"
    /\ cache[WorldPostsKey("A")].status = "success"
    /\ PostsRegion = "notfound"

\* this step renders DashboardPage: it is mounted, or the session status
\* changes while it is mounted
DashboardPageRenders ==
    /\ route' = "DashboardPage"
    /\ route # "DashboardPage" \/ session' # session

\* C15: DashboardPage rendered under 'loading' shows the placeholder and
\* issues no redirect, under 'unauthenticated' it shows nothing and issues
\* the redirect to /auth/signin, and under 'authenticated', and only then,
\* it shows the session content with the sign-out button and issues no
\* redirect.
C15_ThreeSessionStates ==
    [][DashboardPageRenders =>
         /\ session' \in SessionStatus
         /\ session' = "loading"
              => DashboardPageRender' = "placeholder" /\ pushed' \in {pushed, "none"}
         /\ session' = "unauthenticated"
              => DashboardPageRender' = "null" /\ pushed' = "/auth/signin"
         /\ session' = "authenticated"
              => DashboardPageRender' = "content" /\ pushed' \in {pushed, "none"}
         /\ DashboardPageRender' = "content" => session' = "authenticated"]_vars

\* DashboardPage is mounted without a session: nothing is shown and the
\* redirect to the sign-in flow is pending
C15_RedirectPending ==
    /\ route = "DashboardPage"
    /\ session = "unauthenticated"
    /\ DashboardPageRender = "null"
    /\ pushed = "/auth/signin"

\* the loading state of key k ends in this step
LoadingEnds(k) == IsLoading(k) /\ ~IsLoading(k)'

\* C16: the loading state of a query ends only in the step in which a
\* response to its own request arrives, so it lasts as long as the network
\* does not answer; and when every request is eventually answered, every
\* query that is loading eventually leaves the loading state.
C16_LoadingEndsWithResponse ==
    /\ [][\A k \in Keys :
            LoadingEnds(k) => \E i \in Slots : Arrives(i) /\ net[i].key = k]_vars
    /\ \A k \in Keys : IsLoading(k) ~> ~IsLoading(k)

\* every response of Dashboard has arrived, the one of the sidebar has
\* not: the sidebar still shows its loading placeholder
C16_StillLoading ==
    /\ route = "Dashboard" /\ sidebar
    /\ \A k \in Range(DashboardKeys) : ~cache[k].isFetching
    /\ InFlight(SidebarKey) # {}
    /\ SidebarRegion = "skeleton"

\* the write requests of the three mutations
WriteUrls == {PostsUrl, VotesUrl, SmartProfilesUrl}

FreshWithout(k, m) ==
    /\ cache[k].status = "success"
    /\ ~(m.data.v \subseteq cache[k].data.v)
    /\ ~cache[k].isInvalidated

\* C18: once a mutation has succeeded, no cached list that the write
\* affects is left uninvalidated with the data from before the write: the
\* post lists ['worldPosts', W] and 'recentPosts' after a create-post, the
\* proposals of W after a vote, 'smartProfiles' after a create-profile.
C18_AffectedKeysInvalidated ==
    /\ createPostMutation.status = "success"
         => /\ ~FreshWithout(WorldPostsKey(worldId), createPostMutation)
            /\ ~FreshWithout(RecentPostsKey, createPostMutation)
    /\ voteMutation.status = "success"
         => ~FreshWithout(WorldProposalsKey(worldId), voteMutation)
    /\ createProfileMutation.status = "success"
         => ~FreshWithout(ProfilesPageKey, createProfileMutation)

\* the requests for key k that this step hands to the network
Issued(k) ==
    {i \in Slots : i > reqCount /\ i <= reqCount' /\ net'[i].key = k}

\* this step mounts the world page for world w, or changes its worldId to w
Mounts(w) ==
    /\ route' = "LivingWorldPage"
    /\ worldId' = w
    /\ <<route, worldId>> # <<"LivingWorldPage", w>>

\* this step re-renders the world page on another tab, worldId unchanged
SwitchesTab ==
    /\ route' = route
    /\ worldId' = worldId
    /\ activeTab' # activeTab

\* C19 (as stated): a step that mounts the world page for W, or changes its
\* worldId to W, issues exactly one GET for each of the four keys of W, and
\* a tab switch issues none.
C19_OneGetPerKey ==
    [][/\ \A w \in Worlds :
            Mounts(w) =>
                /\ \A k \in Range(WorldKeys(w)) : Cardinality(Issued(k)) = 1
                /\ reqCount' = reqCount + Len(WorldKeys(w))
       /\ SwitchesTab => (reqCount' = reqCount /\ net' = net)]_vars

\* C19 (amended): the step issues exactly one GET for each of the four keys
\* of W that has no fetch in flight and none for a key whose fetch is still
\* in flight (the page joins that fetch); it issues no other request, and
\* a tab switch issues none.
C19_OneGetUnlessInFlight ==
    [][/\ \A w \in Worlds :
            Mounts(w) =>
                /\ \A k \in Range(WorldKeys(w)) :
                      Cardinality(Issued(k)) =
                          IF cache[k].isFetching THEN 0 ELSE 1
                /\ \A k \in Keys \ Range(WorldKeys(w)) : Issued(k) = {}
                /\ \A k \in Range(WorldKeys(w)) : cache'[k].isFetching
       /\ SwitchesTab => (reqCount' = reqCount /\ net' = net)]_vars

\* world A was mounted first, then world B, then world A again while its
\* first fetches were still in flight, and a tab of A was opened
C19_RejoinedInFlight ==
    /\ route = "LivingWorldPage"
    /\ worldId = "A"
    /\ activeTab # "posts"
    /\ reqCount = 2 * Len(WorldKeys("A"))
    /\ \A i \in 1..Len(WorldKeys("A")) :
          /\ net[i].stage = "free" \/ net[i].key = WorldKeys("A")[i]
          /\ net[i + Len(WorldKeys("A"))].stage = "free"
                \/ net[i + Len(WorldKeys("A"))].key = WorldKeys("B")[i]
    /\ \E i \in 1..Len(WorldKeys("A")) : net[i].stage # "free"
    /\ \E i \in 1..Len(WorldKeys("A")) :
          net[i + Len(WorldKeys("A"))].stage # "free"

\* this step is the arrival of a failed response of query request i
Fails(i) ==
    /\ Arrives(i)
    /\ net[i].kind = "query"
    /\ cache'[net[i].key].fetchFailureCount > 0

\* a failed fetch touches nothing but the entry of its own query: no
\* navigation, no request, no mutation, no invalidation, no other entry
FailureFrame(k) ==
    /\ cache'[k].status = "error"
    /\ ~cache'[k].isFetching
    /\ \A j \in Keys \ {k} : cache'[j] = cache[j]
    /\ \A j \in Keys : cache'[j].isInvalidated = cache[j].isInvalidated
    /\ UNCHANGED <<route, worldId, themeWorld, themeColors, requestPath, processed, pushed, reqCount, userProfile, mutations,
                   backend>>
    /\ \A j \in Slots : net'[j] # net[j] => net'[j] = Free

\* the renderings that stand for "nothing here"
EmptyStates == {"empty", "prompt", "notfound"}

\* C20: a failed query fetch leaves its query without loading,
\* with an error and without data, changes nothing else, and the region of
\* the query, when it is on screen (its tab open, the page past its
\* spinner), then renders its empty state.
C20_FailedFetchEmptyState ==
    [][\A i \in Slots : Fails(i) => \A k \in {net[i].key} :
            /\ FailureFrame(k)
            /\ ~Truthy(cache'[k].data)
            /\ (k \in ViewKeys /\ Region(k)' \notin {"hidden", "spinner"})
                  => Region(k)' \in EmptyStates]_vars

\* this step is the arrival of a successful response of the create-post
\* or vote request i
WriteSucceeds(i) ==
    /\ MutationArrives(i)
    /\ net[i].ok
    /\ net[i].kind \in {"createPost", "vote"}

\* C21: the arrival of a successful create-post or vote response marks the
\* key that its onSuccess names and leaves every other cache entry as it
\* was; no request is issued for any other key.
C21_InvalidatesOnlyNamedKey ==
    [][\A i \in Slots :
         WriteSucceeds(i) =>
            /\ cache'[InvalidatedKey(net[i])].isInvalidated
            /\ \A k \in Keys \ {InvalidatedKey(net[i])} :
                  cache'[k] = cache[k] /\ Issued(k) = {}]_vars

\* a vote has succeeded: the proposals of the world are marked and being
\* fetched again while the world, its posts and its members are settled
\* and unmarked
C21_VoteInvalidatedProposals ==
    /\ voteMutation.status = "success"
    /\ cache[WorldProposalsKey("A")].isInvalidated
    /\ cache[WorldProposalsKey("A")].isFetching
    /\ \A k \in {WorldKey("A"), WorldPostsKey("A"), WorldMembersKey("A")} :
          /\ cache[k].status = "success"
          /\ ~cache[k].isInvalidated
          /\ ~cache[k].isFetching

\* the requests of kind `kind` that the mounted page has fired and that
\* are not answered yet
Unanswered(kind) ==
    {i \in Slots : net[i].stage # "free" /\ net[i].kind = kind /\ net[i].live}

\* C22: each mutation instance of the mounted page has at most one request
\* in flight, and it has one exactly while it is pending, when its buttons
\* are disabled.
C22_OneWriteInFlight ==
    /\ Cardinality(Unanswered("createPost")) =
          (IF Disabled(createPostMutation) THEN 1 ELSE 0)
    /\ Cardinality(Unanswered("vote")) =
          (IF Disabled(voteMutation) THEN 1 ELSE 0)
    /\ Cardinality(Unanswered("createProfile")) =
          (IF Disabled(createProfileMutation) THEN 1 ELSE 0)

\* a vote is pending while the governance tab lists a proposal with its
\* buttons, and a post is pending too
C22_VotePendingButtonsShown ==
    /\ Disabled(voteMutation)
    /\ Disabled(createPostMutation)
    /\ ProposalsShown # {}

\* the create-post requests that this step hands to the network
Submitted ==
    {i \in Slots : net[i].stage = "free" /\ net'[i].kind = "createPost"}

\* C23: a step that submits the form has a textarea that trims to something,
\* issues exactly one create-post request, with the trimmed content, and
\* empties the textarea in the same step; no step issues a create-post
\* request while the textarea trims to nothing; and the arrival of the
\* response, successful or failed, leaves the textarea as it is.
C23_SubmitClearsDraft ==
    [][/\ Submitted # {} =>
            /\ Trim(content) # <<>>
            /\ Cardinality(Submitted) = 1
            /\ \A i \in Submitted : net'[i].arg.a = Trim(content)
            /\ content' = <<>>
            /\ createPostMutation'.status = "loading"
       /\ Trim(content) = <<>> => Submitted = {}
       /\ \A i \in Slots :
            (MutationArrives(i) /\ net[i].kind = "createPost")
               => content' = content]_vars

\* a draft was submitted and its request has failed: the textarea is
\* empty and nothing was stored
C23_DraftGoneAfterFailure ==
    /\ createPostMutation.status = "error"
    /\ content = <<>>
    /\ posts["A"] = {}
    /\ reqCount = 5

\* this step fires the create-profile mutation
FiresCreateProfile ==
    ~Disabled(createProfileMutation) /\ Disabled(createProfileMutation)'

\* C24: firing the create-profile mutation leaves the name in the form;
\* when its response arrives the name is cleared and 'smartProfiles' is
\* marked if the request has succeeded, and the name and the cache are left
\* as they are if it has failed.
C24_ResetOnlyOnSuccess ==
    [][/\ FiresCreateProfile => (profileName' = profileName /\ cache' = cache)
       /\ \A i \in Slots :
            (MutationArrives(i) /\ net[i].kind = "createProfile") =>
               IF net[i].ok
               THEN profileName' = "" /\ cache'[ProfilesPageKey].isInvalidated
               ELSE profileName' = profileName /\ cache' = cache]_vars

\* the create-profile request has failed: the name is still in the form
\* and 'smartProfiles' is settled and unmarked
C24_NameKeptAfterFailure ==
    /\ createProfileMutation.status = "error"
    /\ profileName # ""
    /\ profiles = {}
    /\ cache[ProfilesPageKey].status = "success"
    /\ ~cache[ProfilesPageKey].isInvalidated

\* C25: Dashboard renders the "You haven't joined any Living Worlds yet"
\* prompt only for an account that has no membership.
C25_PromptOnlyWithoutMemberships ==
    (route = "Dashboard" /\ Region(UserWorldsKey) = "prompt")
        => MembershipsOf(Account(authToken)) = {}

\* the requests that this step hands to the network
Sent == {i \in Slots : i > reqCount /\ i <= reqCount'}

\* C26: with nothing stored under 'authToken', a step that mounts the world
\* page or the sidebar still issues one request for every key that is not
\* being fetched, and a step that fires the create-post mutation still
\* issues its request; each of these requests goes to the network with the
\* header "Bearer null"; no such step pushes a route, and a query or a
\* mutation comes to be in error only with the arrival of a response.
C26_NullTokenStillSent ==
    [][authToken' = "null" =>
         /\ \A w \in Worlds :
              Mounts(w) => \A k \in Range(WorldKeys(w)) :
                              ~cache[k].isFetching => Cardinality(Issued(k)) = 1
         /\ (~sidebar /\ sidebar' /\ ~cache[SidebarKey].isFetching)
              => Cardinality(Issued(SidebarKey)) = 1
         /\ (~Disabled(createPostMutation) /\ Disabled(createPostMutation)')
              => Cardinality(Submitted) = 1
         /\ \A i \in Sent :
              net'[i].stage = "sent" /\ Authorization(net'[i]) = "Bearer null"
         /\ pushed' = "none"
         /\ \A k \in Keys :
              (cache[k].status # "error" /\ cache'[k].status = "error")
                 => \E i \in Slots : Arrives(i) /\ net[i].key = k
         /\ (createPostMutation.status # "error"
               /\ createPostMutation'.status = "error")
              => \E i \in Slots : MutationArrives(i)]_vars

\* nothing is stored under 'authToken' and both a create-post and a fetch
\* issued without a token are in flight
C26_SentWithoutToken ==
    /\ authToken = "null"
    /\ \E i, j \in Slots :
         /\ net[i].stage = "sent" /\ net[i].kind = "query"
         /\ Authorization(net[i]) = "Bearer null"
         /\ net[j].stage # "free" /\ net[j].kind = "createPost"
         /\ Authorization(net[j]) = "Bearer null"

\* this step renders HomePage: it is mounted, or the session status changes
\* while it is mounted
HomePageRenders ==
    /\ route' = "HomePage"
    /\ route # "HomePage" \/ session' # session

\* this step follows the redirect that the mounted page issues under the
\* session status of now, and the status stays as it is
Redirected ==
    /\ pushed # "none"
    /\ pushed = PushOf(route, session)
    /\ route' = (IF pushed = "/dashboard" THEN "DashboardPage" ELSE pushed)
    /\ route' # route
    /\ session' = session

\* C27: a render of HomePage issues the redirect to /dashboard when the
\* session status is 'authenticated' and issues none otherwise (a redirect
\* that is pending stays pending); and the page that a followed
\* redirect leads to issues no redirect under the same session status, so
\* no second redirect follows the first.
C27_RedirectsDoNotCycle ==
    [][/\ HomePageRenders =>
            IF session' = "authenticated" THEN pushed' = "/dashboard"
            ELSE pushed' \in {pushed, "none"}
       /\ Redirected => pushed' = "none"]_vars

\* HomePage has redirected a signed-in user: DashboardPage is mounted,
\* shows its content and no redirect is pending
C27_ArrivedAtDashboard ==
    /\ route = "DashboardPage"
    /\ session = "authenticated"
    /\ DashboardPageRender = "content"
    /\ pushed = "none"

\* the field f of the theme data of world w holds a string that is not empty
HasColor(w, f) ==
    /\ w.t = "object"
    /\ w.v.theme_data.t = "object"
    /\ w.v.theme_data.v[f].t = "string"
    /\ w.v.theme_data.v[f].v # ""

\* C28: getThemeColors returns a colour for each of the three fields and
\* never throws: the value of the world's theme data where that field holds
\* a string that is not empty, the default of the field otherwise, each
\* field by itself; all three defaults without a world or without theme
\* data.
C28_ThemeColorsWithDefaults ==
    /\ DOMAIN themeColors = ThemeFields
    /\ \A f \in ThemeFields :
         /\ themeColors[f].t = "string"
         /\ themeColors[f] =
              IF HasColor(themeWorld, f) THEN themeWorld.v.theme_data.v[f]
              ELSE DefaultColors[f]
    /\ (themeWorld.t # "object" \/ themeWorld.v.theme_data.t # "object")
         => themeColors = DefaultColors

\* a world whose theme sets the primary colour, leaves the background
\* empty and has no secondary colour: one value of the theme, two defaults
C28_MixedTheme ==
    /\ themeWorld.t = "object"
    /\ themeWorld.v.theme_data.t = "object"
    /\ themeWorld.v.theme_data.v["primaryColor"] = Str("#111111")
    /\ themeWorld.v.theme_data.v["backgroundColor"] = Str("")
    /\ themeWorld.v.theme_data.v["secondaryColor"] = Undefined
    /\ themeColors["primaryColor"] = Str("#111111")
    /\ themeColors["backgroundColor"] = DefaultColors["backgroundColor"]
    /\ themeColors["secondaryColor"] = DefaultColors["secondaryColor"]

\* the path p is the route r or lies below it
UnderRoute(p, r) ==
    \/ p = r
    \/ /\ Len(p) > Len(r)
       /\ SubSeq(p, 1, Len(r) + 1) = r \o Slash

\* the routes the comment of the matcher names: the API routes,
\* /_next/static, /_next/image and /favicon.ico
ExcludedRoute(p) ==
    \/ UnderRoute(p, Slash \o <<"a", "p", "i">>)
    \/ UnderRoute(p, Slash \o <<"_", "n", "e", "x", "t", "/", "s", "t", "a",
                                 "t", "i", "c">>)
    \/ UnderRoute(p, Slash \o <<"_", "n", "e", "x", "t", "/", "i", "m", "a",
                                 "g", "e">>)
    \/ p = Slash \o <<"f", "a", "v", "i", "c", "o", "n", ".", "i", "c", "o">>

\* C29: the middleware runs on a request if and only if its path is not one
\* of the excluded routes (the API routes, _next/static, _next/image,
\* favicon.ico): it runs on no path under /api, and on every other path,
\* one whose first segment only begins with "api" included.
C29_MatcherSelectsAllButExcluded ==
    processed <=> ~ExcludedRoute(requestPath)

====
